---- MODULE Spec2Model ----
(***************************************************************************)
(* The execution gate of the Excel chatbot (src/tools.py): the static      *)
(* validator validate_expression and the tool body _tool, which strips     *)
(* code fences from the generated text, validates and compiles it, and     *)
(* executes it with the process-wide sys.stdout redirected to a buffer.    *)
(*                                                                         *)
(* A text is a sequence of tokens.  A token is an indivisible piece of     *)
(* text: a whitespace character, a code-fence marker, the source of one    *)
(* statement, one printed value, or a literal of a message.                *)
(***************************************************************************)
EXTENDS Integers, Sequences, FiniteSets, TLC

(***************************************************************************)
(* Bounds of the model.                                                    *)
(***************************************************************************)
\* Most statements in one generated program.
MaxStmts == 2
\* Most invocations of the tool in one process.
MaxRuns == 2
\* Most print calls of one execution in the overlapping-executions model.
MaxPrints == 2

(***************************************************************************)
(* Texts.                                                                  *)
(***************************************************************************)
Range(s) == {s[i] : i \in 1..Len(s)}

Whitespace == {" ", "\n"}

\* str.replace(tok, ""): every occurrence of the token is removed.
Replace(text, tok) == SelectSeq(text, LAMBDA t : t # tok)

\* str.strip(): leading and trailing whitespace is removed.
Strip(text) ==
    LET keep == {i \in 1..Len(text) : text[i] \notin Whitespace}
    IN  IF keep = {} THEN <<>>
        ELSE LET lo == CHOOSE i \in keep : \A j \in keep : i <= j
                 hi == CHOOSE i \in keep : \A j \in keep : j <= i
             IN  SubSeq(text, lo, hi)

\* part occurs in text as a contiguous run of tokens (Python's "in" on strings).
Contains(text, part) ==
    \E i \in 0..(Len(text) - Len(part)) : SubSeq(text, i + 1, i + Len(part)) = part

\* The code-fence markers: three backquotes followed by the word python, and
\* three backquotes alone (a backquote cannot be written in a string here).
FencePython == "<fence>python"
Fence == "<fence>"

\* Line 147: generated_code.replace(FencePython, "").replace(Fence, "").strip()
AdaptResponse(text) == Strip(Replace(Replace(text, FencePython), Fence))

(***************************************************************************)
(* Syntax trees.  A node has the name of its class, the identifier it      *)
(* carries (Name.id, Attribute.attr) and its child nodes in the order of   *)
(* ast.iter_child_nodes.                                                   *)
(***************************************************************************)
Node(t, i, k) == [type |-> t, id |-> i, kids |-> k]
Load == Node("Load", "", <<>>)
Constant == Node("Constant", "", <<>>)
Name(i) == Node("Name", i, <<Load>>)

\* print(1+1)
T_print2 ==
    Node("Expr", "", <<Node("Call", "", <<Name("print"), Node("BinOp", "", <<Constant,
    Node("Add", "", <<>>), Constant>>)>>)>>)
\* x = 1/0
T_divzero ==
    Node("Assign", "", <<Node("Name", "x", <<Node("Store", "", <<>>)>>), Node("BinOp", "",
    <<Constant, Node("Div", "", <<>>), Constant>>)>>)
\* x = 5
T_assign ==
    Node("Assign", "", <<Node("Name", "x", <<Node("Store", "", <<>>)>>), Constant>>)
\* print(len(df))
T_printlen ==
    Node("Expr", "", <<Node("Call", "", <<Name("print"), Node("Call", "", <<Name("len"),
    Name("df")>>)>>)>>)
\* import os
T_import ==
    Node("Import", "", <<Node("alias", "", <<>>)>>)
\* from os import getcwd
T_importfrom ==
    Node("ImportFrom", "", <<Node("alias", "", <<>>)>>)
\* print(__import__('os').system('ls'))
T_dunderimport ==
    Node("Expr", "", <<Node("Call", "", <<Name("print"), Node("Call", "", <<Node("Attribute",
    "system", <<Node("Call", "", <<Name("__import__"), Constant>>), Load>>), Constant>>)>>)>>)
\* eval('1')
T_eval ==
    Node("Expr", "", <<Node("Call", "", <<Name("eval"), Constant>>)>>)
\* print(os.getcwd())
T_osgetcwd ==
    Node("Expr", "", <<Node("Call", "", <<Name("print"), Node("Call", "", <<Node("Attribute",
    "getcwd", <<Name("os"), Load>>)>>)>>)>>)
\* print(df.__class__)
T_dunderread ==
    Node("Expr", "", <<Node("Call", "", <<Name("print"), Node("Attribute", "__class__",
    <<Name("df"), Load>>)>>)>>)
\* print(df.__len__())
T_dundercall ==
    Node("Expr", "", <<Node("Call", "", <<Name("print"), Node("Call", "", <<Node("Attribute",
    "__len__", <<Name("df"), Load>>)>>)>>)>>)
\* df.clear()
T_clear ==
    Node("Expr", "", <<Node("Call", "", <<Node("Attribute", "clear", <<Name("df"),
    Load>>)>>)>>)
\* raise pd.errors.ParserError.__mro__[-2]
T_raisebase ==
    Node("Raise", "", <<Node("Subscript", "", <<Node("Attribute", "__mro__",
    <<Node("Attribute", "ParserError", <<Node("Attribute", "errors", <<Name("pd"), Load>>),
    Load>>), Load>>), Node("UnaryOp", "", <<Node("USub", "", <<>>), Constant>>), Load>>)>>)
\* return 1
T_return ==
    Node("Return", "", <<Constant>>)
\* print('  hi  ')  and  print(' ')
T_printconst ==
    Node("Expr", "", <<Node("Call", "", <<Name("print"), Constant>>)>>)
\* if 1:
\*     import os
T_ifimport ==
    Node("If", "", <<Constant, Node("Import", "", <<Node("alias", "", <<>>)>>)>>)
\* df.eval('1')
T_attreval ==
    Node("Expr", "", <<Node("Call", "", <<Node("Attribute", "eval", <<Name("df"), Load>>),
    Constant>>)>>)

\* The statements a generated program is made of: the scenarios of the
\* specification and one statement for each construct the validator and the
\* executor tell apart.
Statements ==
    { "print(1+1)", "x = 1/0", "x = 5", "print(len(df))", "import os",
      "from os import getcwd", "print(__import__('os').system('ls'))", "eval('1')",
      "print(os.getcwd())", "print(df.__class__)", "print(df.__len__())", "df.clear()",
      "raise pd.errors.ParserError.__mro__[-2]", "return 1", "print('  hi  ')",
      "print(' ')", "if 1:\n    import os", "df.eval('1')", "x = (" }

\* The statements the parser refuses ('(' was never closed).
Malformed == { "x = (" }

\* ast.parse of one statement.
StmtTree(s) ==
    CASE s = "print(1+1)" -> T_print2
      [] s = "x = 1/0" -> T_divzero
      [] s = "x = 5" -> T_assign
      [] s = "print(len(df))" -> T_printlen
      [] s = "import os" -> T_import
      [] s = "from os import getcwd" -> T_importfrom
      [] s = "print(__import__('os').system('ls'))" -> T_dunderimport
      [] s = "eval('1')" -> T_eval
      [] s = "print(os.getcwd())" -> T_osgetcwd
      [] s = "print(df.__class__)" -> T_dunderread
      [] s = "print(df.__len__())" -> T_dundercall
      [] s = "df.clear()" -> T_clear
      [] s = "raise pd.errors.ParserError.__mro__[-2]" -> T_raisebase
      [] s = "return 1" -> T_return
      [] s = "print('  hi  ')" -> T_printconst
      [] s = "print(' ')" -> T_printconst
      [] s = "if 1:\n    import os" -> T_ifimport
      [] s = "df.eval('1')" -> T_attreval

\* The spelling of the identifiers that can be the callee of a call, for the
\* substring test of line 106.
Spell(i) ==
    CASE i = "__import__" -> <<"_", "_", "i", "m", "p", "o", "r", "t", "_", "_">>
      [] i = "__class__" -> <<"_", "_", "c", "l", "a", "s", "s", "_", "_">>
      [] i = "__len__" -> <<"_", "_", "l", "e", "n", "_", "_">>
      [] i = "__mro__" -> <<"_", "_", "m", "r", "o", "_", "_">>
      [] i = "ParserError" -> <<"P", "a", "r", "s", "e", "r", "E", "r", "r", "o", "r">>
      [] i = "system" -> <<"s", "y", "s", "t", "e", "m">>
      [] i = "getcwd" -> <<"g", "e", "t", "c", "w", "d">>
      [] i = "errors" -> <<"e", "r", "r", "o", "r", "s">>
      [] i = "clear" -> <<"c", "l", "e", "a", "r">>
      [] i = "print" -> <<"p", "r", "i", "n", "t">>
      [] i = "eval" -> <<"e", "v", "a", "l">>
      [] i = "len" -> <<"l", "e", "n">>
      [] OTHER -> <<>>

\* The lines of a text: it is split at its "\n" tokens.
RECURSIVE SplitLines(_)
SplitLines(text) ==
    IF \A i \in 1..Len(text) : text[i] # "\n" THEN <<text>>
    ELSE LET n == CHOOSE i \in 1..Len(text) :
                     text[i] = "\n" /\ \A j \in 1..(i - 1) : text[j] # "\n"
         IN  <<SubSeq(text, 1, n - 1)>> \o SplitLines(SubSeq(text, n + 1, Len(text)))

\* Line 89, ast.parse(expression, mode='exec'): the Module node, or the
\* SyntaxError.  Every line must be one well-formed statement; the empty text
\* is the empty module.
Parse(expression) ==
    LET lines == SplitLines(expression)
    IN  IF expression = <<>> THEN [ok |-> TRUE, tree |-> Node("Module", "", <<>>)]
        ELSE IF \A i \in 1..Len(lines) :
                    Len(lines[i]) = 1 /\ lines[i][1] \in Statements \ Malformed
             THEN [ok |-> TRUE,
                   tree |-> Node("Module", "", [i \in 1..Len(lines) |-> StmtTree(lines[i][1])])]
             ELSE [ok |-> FALSE, tree |-> Node("Module", "", <<>>)]

(***************************************************************************)
(* The validator, lines 79-108.                                            *)
(***************************************************************************)
\* Line 85.
PROHIBITED_MODULES == {"os", "subprocess", "shutil", "sys", "builtins", "socket"}
\* Line 86.
PROHIBITED_FUNCTIONS == {"eval", "exec", "open", "compile", "__import__", "getattr", "input"}

\* "__" in attr (line 106): two consecutive underscores anywhere in the name.
HasDunder(attr) ==
    LET sp == Spell(attr)
    IN  \E i \in 1..(Len(sp) - 1) : sp[i] = "_" /\ sp[i + 1] = "_"

\* A walk that goes depth first (statement by statement) instead.
RECURSIVE WalkDepthFirst(_)
WalkDepthFirst(todo) ==
    IF todo = <<>> THEN <<>>
    ELSE <<Head(todo)>> \o WalkDepthFirst(Head(todo).kids \o Tail(todo))

ast_walk_depth_first(tree) == WalkDepthFirst(<<tree>>)

\* ast.walk: breadth first, from a queue to which the children of each node
\* taken from its front are appended.
RECURSIVE Walk(_)
Walk(todo) ==
    IF todo = <<>> THEN <<>>
    ELSE <<Head(todo)>> \o Walk(Tail(todo) \o Head(todo).kids)

ast_walk(tree) == Walk(<<tree>>)

\* The messages of the ValueErrors the validator raises; <<>> is no error.
NoError == <<>>
ImportNotAllowed == <<"Expression not valid. ", "Import", " not allowed.">>
ModuleNotAllowed == <<"Expression not valid. ", "Module", " not allowed.">>
HazardDetected(id) == <<"Expression not valid. Hazardous expression detected: ", id>>
SyntaxErrorText == "'(' was never closed (<unknown>, line 1)"
NotValidSyntax == <<"Expression not valid: ", SyntaxErrorText>>

\* Lines 96-97.
CheckImport(node) ==
    IF node.type \in {"Import", "ImportFrom"} THEN ImportNotAllowed ELSE NoError

\* Lines 99-100.
CheckModule(node) ==
    IF node.type = "Name" /\ node.id \in PROHIBITED_MODULES THEN ModuleNotAllowed ELSE NoError

\* The check of a call that looks at attribute callees only.
CheckCallAttributesOnly(node) ==
    IF node.type # "Call" THEN NoError
    ELSE LET func == node.kids[1]
         IN  IF func.type = "Attribute"
                     /\ (func.id \in PROHIBITED_FUNCTIONS \/ HasDunder(func.id))
                THEN HazardDetected(func.id)
             ELSE NoError

\* Lines 102-107; node.func is the first child of a Call.
CheckCall(node) ==
    IF node.type # "Call" THEN NoError
    ELSE LET func == node.kids[1]
         IN  IF func.type = "Name" /\ func.id \in PROHIBITED_FUNCTIONS
                THEN HazardDetected(func.id)
             ELSE IF func.type = "Attribute"
                     /\ (func.id \in PROHIBITED_FUNCTIONS \/ HasDunder(func.id))
                THEN HazardDetected(func.id)
             ELSE NoError

\* The body of the loop of line 94 for one node: the first check that raises.
CheckNode(node) ==
    IF CheckImport(node) # NoError THEN CheckImport(node)
    ELSE IF CheckModule(node) # NoError THEN CheckModule(node)
    ELSE CheckCall(node)

\* Lines 88-108: the tree when every node passes, or the message of the
\* ValueError raised at the first node of the walk that fails a check.
validate_expression(expression) ==
    LET p == Parse(expression)
        walk == ast_walk(p.tree)
        bad == {i \in 1..Len(walk) : CheckNode(walk[i]) # NoError}
    IN  IF ~p.ok THEN [ok |-> FALSE, tree |-> p.tree, error |-> NotValidSyntax]
        ELSE IF bad = {} THEN [ok |-> TRUE, tree |-> p.tree, error |-> NoError]
        ELSE LET first == CHOOSE i \in bad : \A j \in bad : i <= j
             IN  [ok |-> FALSE, tree |-> p.tree, error |-> CheckNode(walk[first])]

\* Line 152, compile(tree, mode="exec"): the SyntaxError of a tree that parsed
\* but is no program ('return' outside function; the programs of the model
\* define no function and hold return as a statement of the module), or <<>>.
CompileError(tree) ==
    IF \E i \in 1..Len(tree.kids) : tree.kids[i].type = "Return"
    THEN <<"'return' outside function (<expr>, line 1)">>
    ELSE NoError

(***************************************************************************)
(* What exec does with a compiled program, line 192: the statements run in *)
(* order in a fresh namespace whose df is the shared dataset, until one    *)
(* raises.  An environment holds the text printed so far, the dataset, the *)
(* local names bound and the exception raised (NoExc: none).               *)
(***************************************************************************)
\* The dataset as loaded (main.py line 80): its sheets.
LoadedData == {"Overview", "Visits", "Scores"}

NoExc == [type |-> "", catchable |-> TRUE, msg |-> ""]
\* An exception that "except Exception" catches, and one it does not.
Raised(t, m) == [type |-> t, catchable |-> TRUE, msg |-> m]
RaisedBase(t, m) == [type |-> t, catchable |-> FALSE, msg |-> m]

\* print(value): the value and a line end are written to sys.stdout.
Emit(env, value) == [env EXCEPT !.out = @ \o value \o <<"\n">>]

RunStmt(env, s) ==
    CASE s = "print(1+1)" -> Emit(env, <<"2">>)
      [] s = "x = 1/0" -> [env EXCEPT !.exc = Raised("ZeroDivisionError", "division by zero")]
      [] s = "x = 5" -> [env EXCEPT !.locals = @ \cup {"x"}]
      [] s \in {"print(len(df))", "print(df.__len__())"} ->
            Emit(env, <<ToString(Cardinality(env.df))>>)
      [] s = "print(df.__class__)" -> Emit(env, <<"<class 'dict'>">>)
      [] s = "df.clear()" -> [env EXCEPT !.df = {}]
      [] s = "raise pd.errors.ParserError.__mro__[-2]" ->
            [env EXCEPT !.exc = RaisedBase("BaseException", "")]
      [] s = "print('  hi  ')" -> Emit(env, <<" ", " ", "hi", " ", " ">>)
      [] s = "print(' ')" -> Emit(env, <<" ">>)
      [] s \in {"import os", "from os import getcwd", "if 1:\n    import os"} ->
            [env EXCEPT !.exc = Raised("ImportError", "__import__ not found")]
      [] s = "eval('1')" ->
            [env EXCEPT !.exc = Raised("NameError", "name 'eval' is not defined")]
      [] s = "print(os.getcwd())" ->
            [env EXCEPT !.exc = Raised("NameError", "name 'os' is not defined")]
      [] s = "print(__import__('os').system('ls'))" ->
            [env EXCEPT !.exc = Raised("NameError", "name '__import__' is not defined")]
      [] s = "df.eval('1')" ->
            [env EXCEPT !.exc = Raised("AttributeError", "'dict' object has no attribute 'eval'")]
      [] OTHER -> env

RECURSIVE RunFrom(_, _)
RunFrom(env, program) ==
    IF program = <<>> \/ env.exc # NoExc THEN env
    ELSE RunFrom(RunStmt(env, Head(program)), Tail(program))

\* Lines 189-192: safe_locals = {} and exec(compiled_expression, ...).
Exec(program, df) ==
    RunFrom([out |-> <<>>, df |-> df, locals |-> {}, exc |-> NoExc], program)

\* The statements of a text that parsed, in order: what compile hands to exec.
ProgramOf(expression) ==
    IF expression = <<>> THEN <<>>
    ELSE [i \in 1..Len(SplitLines(expression)) |-> SplitLines(expression)[i][1]]

(***************************************************************************)
(* The values _tool returns and raises.                                    *)
(***************************************************************************)
\* Line 200.
Sentinel == <<"Code was executed, but it did not produced a visible output.">>

\* The return of the output as captured, tested for emptiness without strip.
ReturnValueUnstripped(output) == IF output = <<>> THEN Sentinel ELSE output

\* Lines 199-201.
ReturnValue(output) == IF Strip(output) = <<>> THEN Sentinel ELSE Strip(output)

\* A failure message without the source text.
ErrorMessageNoCode(e, code) == <<"Error executing Pandas code: ", e.msg>>

\* Line 205.
ErrorMessage(e, code) ==
    <<"Error executing Pandas code: ", e.msg, "\nGenerated code:\n">> \o code

\* Line 154.
CodeNotAllowed(error) == <<"Code not allowed: ">> \o error

NoResult == [kind |-> "none", type |-> "", value |-> <<>>]
Returned(text) == [kind |-> "returned", type |-> "str", value |-> text]
Propagated(t, text) == [kind |-> "raised", type |-> t, value |-> text]

(***************************************************************************)
(* The sinks sys.stdout can be bound to.                                   *)
(***************************************************************************)
RealSink == <<"stdout">>
Buffer(n) == <<"StringIO", n>>
Unbound == <<"unbound", "local", "variable">>

(***************************************************************************)
(* The texts the code generator can answer with: a program of at most      *)
(* MaxStmts statements, one to a line, as it is, inside a code fence, or   *)
(* with whitespace around it.                                              *)
(***************************************************************************)
Programs == UNION {[1..n -> Statements] : n \in 0..MaxStmts}

RECURSIVE Join(_)
Join(program) ==
    IF program = <<>> THEN <<>>
    ELSE IF Len(program) = 1 THEN program
    ELSE <<Head(program), "\n">> \o Join(Tail(program))

Fenced(text) == <<FencePython, "\n">> \o text \o <<"\n", Fence>>
Padded(text) == <<" ", "\n">> \o text \o <<"\n">>

LlmOutputs ==
    {Join(p) : p \in Programs} \cup {Fenced(Join(p)) : p \in Programs}
        \cup {Padded(Join(p)) : p \in Programs}

(***************************************************************************)
(* The state of the process and of one invocation of _tool.                *)
(***************************************************************************)
VARIABLES
    pc,                 \* where the invocation stands
    host,               \* the process around the tool: "running" or "crashed"
    runs,               \* invocations made so far
    data,               \* the dataset the closure holds (line 112), shared by all runs
    sys_stdout,         \* the process-wide sink sys.stdout
    llm_output,         \* the text as received from the generator (line 144)
    generated_code,     \* the local generated_code
    compiled_expression,\* the local compiled_expression
    old_stdout,         \* the local old_stdout
    redirected_output,  \* the text in this invocation's StringIO
    exc,                \* the exception the program raised inside the try of line 157
    printed,            \* what the program's print calls wrote, wherever it went
    result,             \* how the invocation ended: value returned or exception raised
    sinkAtEntry,        \* sys.stdout as it was when the invocation began
    steps,              \* what this invocation has done so far
    \* Two executions of lines 157-205 overlapping in one process:
    t_pc,               \* where each execution stands
    t_prints,           \* how many print calls each execution's program makes
    t_printed,          \* how many of them it has made
    t_old,              \* each execution's local old_stdout
    t_buf,              \* the text in each execution's StringIO
    t_output,           \* each execution's local output (line 194)
    t_result,           \* the value each execution returned
    overlapped          \* an execution redirected the sink while the other held it

toolvars == <<pc, host, runs, data, llm_output, generated_code,
              compiled_expression, old_stdout, redirected_output, exc, printed,
              result, sinkAtEntry, steps>>

threadvars == <<t_pc, t_prints, t_printed, t_old, t_buf, t_output, t_result, overlapped>>

vars == <<toolvars, sys_stdout, threadvars>>

Threads == {1, 2}

Init ==
    /\ pc = "idle"
    /\ host = "running"
    /\ runs = 0
    /\ data = LoadedData
    /\ sys_stdout = RealSink
    /\ llm_output = <<>>
    /\ generated_code = <<>>
    /\ compiled_expression = <<>>
    /\ old_stdout = Unbound
    /\ redirected_output = <<>>
    /\ exc = NoExc
    /\ printed = <<>>
    /\ result = NoResult
    /\ sinkAtEntry = RealSink
    /\ steps = {}
    /\ t_pc = [i \in Threads |-> "idle"]
    /\ t_prints = [i \in Threads |-> 0]
    /\ t_printed = [i \in Threads |-> 0]
    /\ t_old = [i \in Threads |-> Unbound]
    /\ t_buf = [i \in Threads |-> <<>>]
    /\ t_output = [i \in Threads |-> <<>>]
    /\ t_result = [i \in Threads |-> NoResult]
    /\ overlapped = FALSE

\* Lines 127-144 and main.py lines 103-114: the agent calls the tool while the
\* process runs, and the generator answers with a text.
Invoke ==
    /\ pc = "idle"
    /\ host = "running"
    /\ runs < MaxRuns
    /\ pc' = "adapt"
    /\ runs' = runs + 1
    /\ \E text \in LlmOutputs :
          /\ llm_output' = text
          /\ generated_code' = text
    /\ compiled_expression' = <<>>
    /\ old_stdout' = Unbound
    /\ redirected_output' = <<>>
    /\ exc' = NoExc
    /\ printed' = <<>>
    /\ result' = NoResult
    /\ sinkAtEntry' = sys_stdout
    /\ steps' = {}
    /\ UNCHANGED <<host, data, sys_stdout, threadvars>>

\* Line 147.
Adapt ==
    /\ pc = "adapt"
    /\ generated_code' = AdaptResponse(generated_code)
    /\ pc' = "validate"
    /\ UNCHANGED <<host, runs, data, sys_stdout, llm_output, compiled_expression,
                   old_stdout, redirected_output, exc, printed, result, sinkAtEntry,
                   steps, threadvars>>

\* A validation whose error is swallowed: the invocation goes on either way.
AfterValidationTryAnyway(ok) == "redirect"

\* Lines 149-154: where the invocation goes after the validation: on, or out
\* with the RuntimeError.
AfterValidation(ok) == IF ok THEN "redirect" ELSE "done"

\* Lines 149-154: a ValueError of the validator leaves as a RuntimeError, a
\* SyntaxError of compile leaves as it is (it is no ValueError); main.py line
\* 113 catches both and the process goes on.
Validate ==
    /\ pc = "validate"
    /\ LET v == validate_expression(generated_code)
       IN  IF ~v.ok
           THEN /\ pc' = AfterValidation(FALSE)
                /\ result' = Propagated("RuntimeError", CodeNotAllowed(v.error))
                /\ steps' = steps \cup {"validation raised"}
                /\ UNCHANGED compiled_expression
           ELSE IF CompileError(v.tree) # NoError
           THEN /\ pc' = "done"
                /\ result' = Propagated("SyntaxError", CompileError(v.tree))
                /\ steps' = steps \cup {"validation passed", "compile raised"}
                /\ UNCHANGED compiled_expression
           ELSE /\ pc' = AfterValidation(TRUE)
                /\ compiled_expression' = ProgramOf(generated_code)
                /\ steps' = steps \cup {"validation passed"}
                /\ UNCHANGED result
    /\ UNCHANGED <<host, runs, data, sys_stdout, llm_output, generated_code,
                   old_stdout, redirected_output, exc, printed, sinkAtEntry, threadvars>>

\* Lines 159-161.
Redirect ==
    /\ pc = "redirect"
    /\ old_stdout' = sys_stdout
    /\ redirected_output' = <<>>
    /\ sys_stdout' = Buffer(runs)
    /\ steps' = steps \cup {"redirect"}
    /\ pc' = "exec"
    /\ UNCHANGED <<host, runs, data, llm_output, generated_code, compiled_expression,
                   exc, printed, result, sinkAtEntry, threadvars>>

\* Lines 164-192: the program runs against the shared dataset; what it prints
\* goes to the sink sys.stdout is bound to.
Execute ==
    /\ pc = "exec"
    /\ LET env == Exec(compiled_expression, data)
       IN  /\ data' = env.df
           /\ redirected_output' =
                  IF sys_stdout = Buffer(runs) THEN redirected_output \o env.out
                  ELSE redirected_output
           /\ exc' = env.exc
           /\ printed' = env.out
           /\ pc' = IF env.exc = NoExc THEN "collect" ELSE "except"
    /\ steps' = steps \cup {"exec"}
    /\ UNCHANGED <<host, runs, sys_stdout, llm_output, generated_code,
                   compiled_expression, old_stdout, result, sinkAtEntry, threadvars>>

\* Lines 194-201.
Collect ==
    /\ pc = "collect"
    /\ sys_stdout' = old_stdout
    /\ result' = Returned(ReturnValue(redirected_output))
    /\ steps' = steps \cup {"collected"}
    /\ pc' = "done"
    /\ UNCHANGED <<host, runs, data, llm_output, generated_code, compiled_expression,
                   old_stdout, redirected_output, exc, printed, sinkAtEntry, threadvars>>

\* Lines 203-205: an exception that is an Exception.
HandleException ==
    /\ pc = "except"
    /\ exc.catchable
    /\ sys_stdout' = old_stdout
    /\ result' = Returned(ErrorMessage(exc, generated_code))
    /\ steps' = steps \cup {"caught"}
    /\ pc' = "done"
    /\ UNCHANGED <<host, runs, data, llm_output, generated_code, compiled_expression,
                   old_stdout, redirected_output, exc, printed, sinkAtEntry, threadvars>>

\* Line 203 does not match an exception that is no Exception: it leaves _tool,
\* and main.py line 113 does not match it either, so the process ends.
PropagateException ==
    /\ pc = "except"
    /\ ~exc.catchable
    /\ result' = Propagated(exc.type, <<exc.msg>>)
    /\ host' = "crashed"
    /\ pc' = "done"
    /\ UNCHANGED <<runs, data, sys_stdout, llm_output, generated_code,
                   compiled_expression, old_stdout, redirected_output, exc, printed,
                   sinkAtEntry, steps, threadvars>>

\* main.py lines 107-114: the answer, or the error caught at line 113, is
\* printed and the loop asks for the next query; the frame of _tool is gone.
Finish ==
    /\ pc = "done"
    /\ host = "running"
    /\ pc' = "idle"
    /\ llm_output' = <<>>
    /\ generated_code' = <<>>
    /\ compiled_expression' = <<>>
    /\ old_stdout' = Unbound
    /\ redirected_output' = <<>>
    /\ exc' = NoExc
    /\ printed' = <<>>
    /\ result' = NoResult
    /\ steps' = {}
    /\ UNCHANGED <<host, runs, data, sys_stdout, sinkAtEntry, threadvars>>

Next ==
    \/ Invoke
    \/ Finish
    \/ Adapt
    \/ Validate
    \/ Redirect
    \/ Execute
    \/ Collect
    \/ HandleException
    \/ PropagateException

Spec == Init /\ [][Next]_vars

(***************************************************************************)
(* Two executions of lines 157-205 in one process, their steps interleaved *)
(* (section 5 of the design: the sink is one shared global).  Each runs an *)
(* accepted program that makes t_prints print calls and completes.         *)
(***************************************************************************)
\* What print call k of execution i writes.
Chunk(i, k) == <<"out" \o ToString(i) \o "." \o ToString(k), "\n">>

RECURSIVE PrintedText(_, _)
PrintedText(i, n) == IF n = 0 THEN <<>> ELSE PrintedText(i, n - 1) \o Chunk(i, n)

InitOverlap ==
    /\ pc = "idle" /\ host = "running" /\ runs = 0 /\ data = LoadedData
    /\ sys_stdout = RealSink
    /\ llm_output = <<>> /\ generated_code = <<>> /\ compiled_expression = <<>>
    /\ old_stdout = Unbound /\ redirected_output = <<>> /\ exc = NoExc
    /\ printed = <<>>
    /\ result = NoResult /\ sinkAtEntry = RealSink /\ steps = {}
    /\ t_pc = [i \in Threads |-> "save"]
    /\ t_prints \in [Threads -> 1..MaxPrints]
    /\ t_printed = [i \in Threads |-> 0]
    /\ t_old = [i \in Threads |-> Unbound]
    /\ t_buf = [i \in Threads |-> <<>>]
    /\ t_output = [i \in Threads |-> <<>>]
    /\ t_result = [i \in Threads |-> NoResult]
    /\ overlapped = FALSE

\* An execution holds the sink from its redirection to its restoration.
Holds(i) == t_pc[i] \in {"exec", "restore"}

\* Line 159.
SaveSink(i) ==
    /\ t_pc[i] = "save"
    /\ t_old' = [t_old EXCEPT ![i] = sys_stdout]
    /\ t_pc' = [t_pc EXCEPT ![i] = "redirect"]
    /\ UNCHANGED <<toolvars, sys_stdout, t_prints, t_printed, t_buf, t_output,
                   t_result, overlapped>>

\* Lines 160-161.
RedirectSink(i) ==
    /\ t_pc[i] = "redirect"
    /\ t_buf' = [t_buf EXCEPT ![i] = <<>>]
    /\ sys_stdout' = Buffer(i)
    /\ overlapped' = (overlapped \/ \E j \in Threads \ {i} : Holds(j))
    /\ t_pc' = [t_pc EXCEPT ![i] = "exec"]
    /\ UNCHANGED <<toolvars, t_prints, t_printed, t_old, t_output, t_result>>

\* A print bound to the terminal whatever sys.stdout is.
WriteToTerminal(sink, bufs, text) == bufs

\* Where a print call writes: the StringIO sys.stdout is bound to at the time
\* of the call, or the terminal.
WriteTo(sink, bufs, text) ==
    IF \E j \in Threads : sink = Buffer(j)
    THEN LET j == CHOOSE j \in Threads : sink = Buffer(j)
         IN  [bufs EXCEPT ![j] = @ \o text]
    ELSE bufs

\* Line 192: one print call of the program.
PrintCall(i) ==
    /\ t_pc[i] = "exec"
    /\ t_printed[i] < t_prints[i]
    /\ t_buf' = WriteTo(sys_stdout, t_buf, Chunk(i, t_printed[i] + 1))
    /\ t_printed' = [t_printed EXCEPT ![i] = @ + 1]
    /\ UNCHANGED <<toolvars, sys_stdout, t_pc, t_prints, t_old, t_output,
                   t_result, overlapped>>

\* Line 194, once exec has returned.
GetValue(i) ==
    /\ t_pc[i] = "exec"
    /\ t_printed[i] = t_prints[i]
    /\ t_output' = [t_output EXCEPT ![i] = t_buf[i]]
    /\ t_pc' = [t_pc EXCEPT ![i] = "restore"]
    /\ UNCHANGED <<toolvars, sys_stdout, t_prints, t_printed, t_old, t_buf,
                   t_result, overlapped>>

\* The sink line 197 binds sys.stdout to.
RestoredSink(old) == old

\* Lines 197-201.
RestoreSink(i) ==
    /\ t_pc[i] = "restore"
    /\ sys_stdout' = RestoredSink(t_old[i])
    /\ t_result' = [t_result EXCEPT ![i] = Returned(ReturnValue(t_output[i]))]
    /\ t_pc' = [t_pc EXCEPT ![i] = "done"]
    /\ UNCHANGED <<toolvars, t_prints, t_printed, t_old, t_buf, t_output, overlapped>>

NextOverlap ==
    \E i \in Threads :
        \/ SaveSink(i)
        \/ RedirectSink(i)
        \/ PrintCall(i)
        \/ GetValue(i)
        \/ RestoreSink(i)

SpecOverlap == InitOverlap /\ [][NextOverlap]_vars

(***************************************************************************)
(* What the properties below read off a state.                             *)
(***************************************************************************)
\* The nodes of a tree, in no order.
RECURSIVE NodeSet(_)
NodeSet(node) == {node} \cup UNION {NodeSet(node.kids[i]) : i \in 1..Len(node.kids)}

\* The tree of the text the validator was given (the empty module when the
\* text does not parse).
Parsed == Parse(generated_code).ok
Tree == Parse(generated_code).tree

Finished == pc = "done"
\* validate_expression has returned or raised in this invocation.
Decided == "validation passed" \in steps \/ "validation raised" \in steps
\* validate_expression raised, and the invocation ended with the RuntimeError
\* of line 154.
Rejected ==
    /\ "validation raised" \in steps
    /\ result.kind = "raised"
    /\ result.type = "RuntimeError"
RejectedWith(error) == Rejected /\ result.value = CodeNotAllowed(error)

Imports == {n \in NodeSet(Tree) : n.type \in {"Import", "ImportFrom"}}
TopLevelImport ==
    \E i \in 1..Len(Tree.kids) : Tree.kids[i].type \in {"Import", "ImportFrom"}
ModuleNames == {n \in NodeSet(Tree) : n.type = "Name" /\ n.id \in PROHIBITED_MODULES}
Calls == {n \in NodeSet(Tree) : n.type = "Call"}
\* The prohibited callables the text calls by bare name.
BareCalls ==
    {n.kids[1].id : n \in {c \in Calls : c.kids[1].type = "Name"
                                          /\ c.kids[1].id \in PROHIBITED_FUNCTIONS}}
\* The attribute accesses of the text, and those that are the callee of a call.
Attributes == {n \in NodeSet(Tree) : n.type = "Attribute"}
CalleeAttributes == {c.kids[1] : c \in {c \in Calls : c.kids[1].type = "Attribute"}}
Dunder(ns) == {n \in ns : HasDunder(n.id)}
ProhibitedCallees ==
    {n \in CalleeAttributes : n.id \in PROHIBITED_FUNCTIONS \/ HasDunder(n.id)}

\* A message mentions import: the word itself, or an identifier spelt with it.
MentionsImport(msg) ==
    \/ "Import" \in Range(msg)
    \/ \E t \in Range(msg) : Contains(Spell(t), <<"i", "m", "p", "o", "r", "t">>)

\* r is text without the whitespace around it.
IsTrimOf(r, text) ==
    /\ r # <<>>
    /\ r[1] \notin Whitespace
    /\ r[Len(r)] \notin Whitespace
    /\ \E i \in 0..(Len(text) - Len(r)) :
          /\ SubSeq(text, i + 1, i + Len(r)) = r
          /\ \A j \in (1..i) \cup ((i + Len(r) + 1)..Len(text)) : text[j] \in Whitespace

\* What one execution of a text returns against the dataset as loaded.
FreshResult(code) ==
    LET env == Exec(ProgramOf(code), LoadedData)
    IN  IF env.exc = NoExc THEN Returned(ReturnValue(env.out))
        ELSE Returned(ErrorMessage(env.exc, code))

(***************************************************************************)
(* C1.  In an invocation whose validation step raised, nothing is          *)
(* executed and sys.stdout is not redirected: no step of the invocation is *)
(* the redirection or the exec, and the sink is the one of its entry.      *)
(***************************************************************************)
C1_RejectedNeverExecuted ==
    "validation raised" \in steps =>
        /\ "redirect" \notin steps
        /\ "exec" \notin steps
        /\ sys_stdout = sinkAtEntry
        /\ printed = <<>>

C1_Witness ==
    /\ Finished
    /\ "validation raised" \in steps
    /\ Parsed
    /\ Imports # {}
    /\ Rejected

(***************************************************************************)
(* C2.  After any invocation, on every exit path, sys.stdout is the sink   *)
(* it was before the invocation.                                           *)
(***************************************************************************)
C2_SinkRestoredOnEveryExit == Finished => sys_stdout = sinkAtEntry

(***************************************************************************)
(* C3.  Every invocation ends by returning a string; no outcome leaves     *)
(* _tool as an exception.                                                  *)
(***************************************************************************)
C3_AlwaysReturnsString == Finished => result.kind = "returned"

(***************************************************************************)
(* C4.  A text that parses and whose every attribute access has a name    *)
(* with the double underscore in it is rejected by the validator, whether  *)
(* the attribute is the callee of a call or is only read.                  *)
(***************************************************************************)
C4_EveryDunderAttributeRejected ==
    (Decided /\ Parsed /\ Attributes # {} /\ Dunder(Attributes) = Attributes)
        => Rejected

(***************************************************************************)
(* C5.  As claimed: a text that parses and holds an import statement       *)
(* anywhere is rejected with a reason that mentions import.                *)
(***************************************************************************)
C5_ImportAlwaysNamed ==
    (Decided /\ Parsed /\ Imports # {})
        => (Rejected /\ MentionsImport(result.value))

(***************************************************************************)
(* C5, amended.  A text that parses and holds an import statement is       *)
(* rejected; the reason mentions import when an import is a top-level      *)
(* statement of the program or the text holds no other forbidden           *)
(* construct.                                                              *)
(***************************************************************************)
C5_ImportRejected ==
    (Decided /\ Parsed /\ Imports # {}) =>
        /\ Rejected
        /\ (TopLevelImport \/ (ModuleNames = {} /\ BareCalls = {} /\ ProhibitedCallees = {}))
              => RejectedWith(ImportNotAllowed)

C5_Witness ==
    /\ Finished
    /\ Parsed
    /\ TopLevelImport
    /\ BareCalls # {}
    /\ Tree.kids[1].type = "Expr"
    /\ RejectedWith(ImportNotAllowed)

(***************************************************************************)
(* C6.  As claimed: a text that parses and calls a prohibited callable by  *)
(* bare name is rejected with a reason naming such a callable, whatever    *)
(* else the text holds.                                                    *)
(***************************************************************************)
C6_CallableAlwaysNamed ==
    (Decided /\ Parsed /\ BareCalls # {})
        => \E f \in BareCalls : RejectedWith(HazardDetected(f))

(***************************************************************************)
(* C6, amended.  A text that parses and calls a prohibited callable by     *)
(* bare name is rejected; the reason names a prohibited callable the text  *)
(* calls by bare name when the text holds no import, no prohibited module  *)
(* name and no prohibited attribute callee.                                *)
(***************************************************************************)
C6_CallableRejected ==
    (Decided /\ Parsed /\ BareCalls # {}) =>
        /\ Rejected
        /\ (Imports = {} /\ ModuleNames = {} /\ ProhibitedCallees = {})
              => \E f \in BareCalls : RejectedWith(HazardDetected(f))

C6_Witness ==
    /\ Finished
    /\ Parsed
    /\ BareCalls = {"eval"}
    /\ Imports = {} /\ ModuleNames = {} /\ ProhibitedCallees = {}
    /\ Len(Tree.kids) = MaxStmts
    /\ RejectedWith(HazardDetected("eval"))

(***************************************************************************)
(* C7.  What an execution returns depends only on the text and on the      *)
(* dataset as loaded: it is what a first execution of that text returns.   *)
(***************************************************************************)
C7_ResultDependsOnTextOnly ==
    (Finished /\ result.kind = "returned") => result = FreshResult(generated_code)

C9_TrimmedOutputOrSentinel ==
    (Finished /\ "collected" \in steps) =>
        /\ result.kind = "returned"
        /\ result.value # <<>>
        /\ (result.value = Sentinel) <=> (Range(printed) \subseteq Whitespace)
        /\ (result.value # Sentinel) => IsTrimOf(result.value, printed)

C9_Witness ==
    /\ Finished
    /\ "collected" \in steps
    /\ printed = <<" ", " ", "hi", " ", " ", "\n", " ", "\n">>
    /\ result.value = <<"hi">>

(***************************************************************************)
(* C10.  As claimed: when two executions overlap, neither returns exactly  *)
(* its own printed text, in every interleaving.                            *)
(***************************************************************************)
OwnText(i) == ReturnValue(PrintedText(i, t_prints[i]))
BothDone == \A i \in Threads : t_pc[i] = "done"
Captured(i) == t_result[i] = Returned(OwnText(i))

C10_OverlapCorruptsBoth ==
    (BothDone /\ overlapped) => \A i \in Threads : ~Captured(i)

(***************************************************************************)
(* C10, amended.  Capture is corrupted only by overlap: when no execution  *)
(* redirects the sink while the other holds it, each returns exactly its   *)
(* own printed text.  With overlap, capture is corrupted for both in some  *)
(* interleavings (the witness) and not in others.                          *)
(***************************************************************************)
C10_CorruptionOnlyByOverlap ==
    \A i \in Threads : (t_pc[i] = "done" /\ ~overlapped) => Captured(i)

C10_Witness ==
    /\ BothDone
    /\ overlapped
    /\ \A i \in Threads : ~Captured(i)

====
